---- MODULE Spec2Model ----
(***************************************************************************)
(* The ingestion and upsert pipeline of data_ingestion.py: the readiness   *)
(* gate (wait_for_db), the two fetchers (fetch_timestamps,                 *)
(* fetch_timeseries), the normalizer (prepare_data), the upsert writer     *)
(* (insert_data_into_db) and the combination driver (main).                *)
(*                                                                         *)
(* Five specifications share the variables:                                *)
(*   Spec        one run of main()                                         *)
(*   SpecWriter  insert_data_into_db called directly, batch after batch    *)
(*   SpecGate    wait_for_db called directly with any retries and delay    *)
(*   SpecTwice   SpecWriter, or main() run twice against a remote API      *)
(*               that answers each URL the same way every time             *)
(*   SpecNormalizer  prepare_data called directly on a raw sequence        *)
(***************************************************************************)
EXTENDS Integers, Sequences, FiniteSets, Bags, TLC

\* ------------------------------------------------------------- bounds
\* Longest batch SpecWriter hands to insert_data_into_db.
MaxBatchLen == 3
\* Largest retries argument SpecGate passes to wait_for_db.
MaxRetries == 5
\* Longest raw sequence SpecNormalizer hands to prepare_data.
MaxRawLen == 3

\* ---------------------------------------------------------- constants
\* wait_for_db's defaults, which main() uses.
DefaultRetries == 10
DefaultDelay == 5

\* ------------------------------------------------------------ domains
EntryTimestamps == {100, 200}
Values == {1, 2}
\* A normalized record of prepare_data: {"timestamp": t, "value": v}.
Entries == [timestamp : EntryTimestamps, value : Values]

\* Argument tuples (filter_label, filter_id, region, resolution) of the direct
\* calls: one combination under two labels, and a second combination.
WriterArgs ==
    { [filter_label |-> "load",  filter_id |-> 410, region |-> "DE", resolution |-> "hour"],
      [filter_label |-> "usage", filter_id |-> 410, region |-> "DE", resolution |-> "hour"],
      [filter_label |-> "load",  filter_id |-> 410, region |-> "AT", resolution |-> "hour"] }

NoArgs == [filter_label |-> "", filter_id |-> 0, region |-> "", resolution |-> ""]

\* A decoded response body: a bare array, an object with the named field, an
\* object without it, another JSON value (number, string, null), or no JSON.
JsonBodies(items) ==
    {[shape |-> "array", items |-> i] : i \in items}
        \cup {[shape |-> "object", items |-> i] : i \in items}
        \cup {[shape |-> s, items |-> <<>>] : s \in {"object_without", "scalar", "undecodable"}}

\* A raw entry as json() decodes it: a list of elements, or a value that is no
\* list. elems is what len() counts: the elements of a list, the characters
\* of a string, the keys of an object; a number and null have no len().
List(elems) == [kind |-> "list", elems |-> elems]
NotList(kind, elems) == [kind |-> kind, elems |-> elems]

\* Raw entries of the direct calls of prepare_data; their elements are JSON
\* scalars, written as in the body: numbers, strings, null.
RawEntries ==
    { List(<<>>), List(<<"20">>), List(<<"10", "1.5">>), List(<<"10", "null">>),
      List(<<"20", "1.5">>), List(<<"x", "y", "z">>),
      NotList("string", <<"x", "y">>), NotList("object", <<"t", "v">>),
      NotList("number", <<>>), NotList("null", <<>>) }

\* What the remote API answers the timestamp index with.
IndexBodies == JsonBodies({ <<>>, <<300>>, <<100, 200, 300>> })

\* What the remote API answers a series request with: raw entries, the
\* well-formed ones [timestamp, value], some too short, some longer.
SeriesBodies ==
    JsonBodies({ <<>>,
                 << List(<<100, 1>>) >>,
                 << List(<<100, 1>>), List(<<100, 2>>) >>,
                 << NotList("number", <<>>) >>,
                 << List(<<100>>), List(<<200, 2, 7>>) >> })

\* FILTER_IDS, REGIONS and RESOLUTIONS of config.yaml: absent, empty, one
\* combination, three combinations, and a 1 x 2 x 2 cross-product.
OneFilter == << <<"load", 410>> >>
ThreeFilters == << <<"load", 410>>, <<"wind", 1225>>, <<"usage", 410>> >>

ConfigLists ==
    { <<>>,
      ("FILTER_IDS" :> <<>>) @@ ("REGIONS" :> <<"DE">>) @@ ("RESOLUTIONS" :> <<"hour">>),
      ("FILTER_IDS" :> OneFilter) @@ ("RESOLUTIONS" :> <<"hour">>),
      ("FILTER_IDS" :> OneFilter) @@ ("REGIONS" :> <<"DE">>) @@ ("RESOLUTIONS" :> <<>>),
      ("FILTER_IDS" :> OneFilter) @@ ("REGIONS" :> <<"DE">>) @@ ("RESOLUTIONS" :> <<"hour">>),
      ("FILTER_IDS" :> ThreeFilters) @@ ("REGIONS" :> <<"DE">>) @@ ("RESOLUTIONS" :> <<"hour">>),
      ("FILTER_IDS" :> OneFilter) @@ ("REGIONS" :> <<"DE", "AT">>)
          @@ ("RESOLUTIONS" :> <<"hour", "day">>) }

\* TIMESTAMP_MODE and SPECIFIC_TIMESTAMP of config.yaml.
ConfigModes ==
    { <<>>,
      ("TIMESTAMP_MODE" :> "newest"),
      ("TIMESTAMP_MODE" :> "all"),
      ("TIMESTAMP_MODE" :> "latest"),
      ("TIMESTAMP_MODE" :> "specific"),
      ("TIMESTAMP_MODE" :> "specific") @@ ("SPECIFIC_TIMESTAMP" :> 0),
      ("TIMESTAMP_MODE" :> "specific") @@ ("SPECIFIC_TIMESTAMP" :> 200),
      ("TIMESTAMP_MODE" :> "specific") @@ ("SPECIFIC_TIMESTAMP" :> 999) }

Configs == {l @@ m : l \in ConfigLists, m \in ConfigModes}

\* The configurations main() is run twice with: one combination with every
\* timestamp of its index, and one filter_id under two labels.
TwiceConfigs ==
    { ("FILTER_IDS" :> OneFilter) @@ ("REGIONS" :> <<"DE">>) @@ ("RESOLUTIONS" :> <<"hour">>)
          @@ ("TIMESTAMP_MODE" :> "all"),
      ("FILTER_IDS" :> << <<"load", 410>>, <<"usage", 410>> >>) @@ ("REGIONS" :> <<"DE">>)
          @@ ("RESOLUTIONS" :> <<"hour">>) }

\* The delay arguments SpecGate passes to wait_for_db.
Delays == {0, 1, 5}

NoException == [from |-> "none", type |-> "none"]
NoRun == [pc |-> "none", crash |-> NoException, table |-> EmptyBag]

VARIABLES
    \* ---- the store
    table,            \* committed rows of energy_timeseries (a bag of rows)
    created,          \* whether energy_timeseries exists
    \* ---- insert_data_into_db
    wpc,              \* "idle", "connect", "execute", "returned", "raised"
    wargs,            \* filter_label, filter_id, region, resolution of the call
    timeseries_data,  \* the batch of the call
    inserted_count,   \* statements executed by the call
    txn,              \* the rows as the call's open transaction sees them
    conn,             \* the call's connection: "none", "open", "closed", "leaked"
    \* ---- wait_for_db
    retries,          \* its retries argument
    delay,            \* its delay argument
    attempts,         \* connection attempts made
    slept,            \* seconds slept
    gate,             \* its return value: "none" (not yet), "true", "false"
    probe,            \* its probe connection: "none", "open", "closed"
    \* ---- main
    pc,               \* "start", "wait_db", "fetch_index", "fetch_series", "insert",
                      \* "done", "exit_config", "exit_db", "crashed", "harness"
    config,           \* the document load_config returns
    requests_get,     \* requests.get: the "library" function or a "patched" test double
    fi, ri, si,       \* positions of the three nested loops
    timestamps,       \* the index of the current combination
    todo,             \* what is left of timestamps_to_process
    http,             \* how the HTTP call of the latest fetch ended: "none", "ok", or
                      \* the exception requests raised
    crash,            \* the exception that ended main: the function it left, its type
    \* ---- the remote API and the runs of SpecTwice
    run,              \* 0: the one run of Spec; 1, 2: the first and second run
    remote,           \* URL -> the answer the remote API gave it (runs 1 and 2)
    first,            \* how the first run ended, and the table it left
    \* ---- history
    issued,           \* timestamps the series was requested for, current combination
    idxLog,           \* combinations the index was requested for, in order
    lastWrite,        \* key -> value and label of the latest committed upsert of it
    repeat,           \* the call repeats, argument for argument, the call that just returned
    \* ---- prepare_data called directly
    raw_input,        \* its argument raw_data
    prepared_data     \* the list it returns

storeVars == <<table, created>>
callVars == <<wpc, wargs, timeseries_data, inserted_count, txn, conn>>
gateVars == <<retries, delay, attempts, slept, gate, probe>>
mainVars == <<pc, config, requests_get, fi, ri, si, timestamps, todo, http, crash,
              issued, idxLog, run, remote, first>>
histVars == <<lastWrite, repeat>>
normVars == <<raw_input, prepared_data>>

vars == <<storeVars, callVars, gateVars, mainVars, histVars, normVars>>

\* ------------------------------------------------------------ the table
\* The columns of UNIQUE (filter_id, region, resolution, timestamp).
Key(r) == <<r.filter_id, r.region, r.resolution, r.timestamp>>

\* The row the INSERT of `entry` proposes under the call's arguments.
NewRow(a, entry) ==
    [filter_label |-> a.filter_label, filter_id |-> a.filter_id, region |-> a.region,
     resolution |-> a.resolution, timestamp |-> entry.timestamp, value |-> entry.value]

\* ON CONFLICT (filter_id, region, resolution): the timestamp left out.
ConflictRowsOfCombination(tbl, row) ==
    {r \in BagToSet(tbl) : <<r.filter_id, r.region, r.resolution>>
                              = <<row.filter_id, row.region, row.resolution>>}

\* The rows of `tbl` the proposed row conflicts with.
ConflictRows(tbl, row) == {r \in BagToSet(tbl) : Key(r) = Key(row)}

\* An INSERT with no conflict clause into a table with no constraint.
PlainInsert(tbl, row) == tbl (+) SetToBag({row})

\* ON CONFLICT ... DO UPDATE SET value = energy_timeseries.value + EXCLUDED.value
UpsertRowAddValue(tbl, row) ==
    LET hit == ConflictRows(tbl, row)
    IN  IF hit = {} THEN tbl (+) SetToBag({row})
        ELSE LET keep == [r \in BagToSet(tbl) \ hit |-> tbl[r]]
                 upd  == {[r EXCEPT !.value = r.value + row.value,
                                    !.filter_label = row.filter_label] : r \in hit}
             IN  keep (+) SetToBag(upd)

\* ON CONFLICT ... DO NOTHING: the first write of a key stays.
UpsertRowDoNothing(tbl, row) ==
    IF ConflictRows(tbl, row) = {} THEN tbl (+) SetToBag({row}) ELSE tbl

\* INSERT ... ON CONFLICT (filter_id, region, resolution, timestamp)
\* DO UPDATE SET value = EXCLUDED.value, filter_label = EXCLUDED.filter_label
UpsertRow(tbl, row) ==
    LET hit == ConflictRows(tbl, row)
    IN  IF hit = {} THEN tbl (+) SetToBag({row})
        ELSE LET keep == [r \in BagToSet(tbl) \ hit |-> tbl[r]]
                 n    == BagCardinality([r \in hit |-> tbl[r]])
             IN  keep (+) [r \in {row} |-> n]

\* A commit after every statement.
CommitEachStatement(tbl, tx) == tx

\* What a pass of the loop commits: nothing, the one commit follows the loop.
CommittedInLoop(tbl, tx) == tbl

\* ------------------------------------------------------------ history
\* The latest value and label of each key after the upserts of `batch`.
RECURSIVE LastWins(_, _, _)
LastWins(log, a, batch) ==
    IF batch = <<>> THEN log
    ELSE LET row == NewRow(a, Head(batch))
             rest == [k \in DOMAIN log \ {Key(row)} |-> log[k]]
         IN  LastWins(rest @@ (Key(row) :> [value |-> row.value,
                                            filter_label |-> row.filter_label]),
                      a, Tail(batch))

\* ------------------------------------------------- insert_data_into_db
\* psycopg2.connect, CREATE TABLE IF NOT EXISTS, commit.
InsertConnect ==
    /\ wpc = "connect"
    /\ \E outcome \in {"ok", "OperationalError"} :
         IF outcome = "ok"
         THEN /\ conn' = "open"
              /\ created' = TRUE
              /\ txn' = table
              /\ wpc' = "execute"
         ELSE /\ wpc' = "raised"
              /\ UNCHANGED <<conn, created, txn>>
    /\ UNCHANGED <<table, wargs, timeseries_data, inserted_count>>
    /\ UNCHANGED <<gateVars, mainVars, histVars>>
    /\ UNCHANGED normVars

\* One pass of the loop: one upsert statement, inside the open transaction.
\* A statement the store rejects, or a lost connection, raises out of the
\* function: nothing after it runs, neither the commit nor the close.
InsertExecute ==
    /\ wpc = "execute"
    /\ inserted_count < Len(timeseries_data)
    /\ \E outcome \in {"ok", "Error"} :
         IF outcome = "ok"
         THEN /\ txn' = UpsertRow(txn, NewRow(wargs, timeseries_data[inserted_count + 1]))
              /\ inserted_count' = inserted_count + 1
              /\ table' = CommittedInLoop(table, txn')
              /\ UNCHANGED <<wpc, conn>>
         ELSE /\ wpc' = "raised"
              /\ conn' = "leaked"
              /\ UNCHANGED <<txn, inserted_count, table>>
    /\ UNCHANGED <<created, wargs, timeseries_data>>
    /\ UNCHANGED <<gateVars, mainVars, histVars>>
    /\ UNCHANGED normVars

\* A return that forgets conn.close().
ConnLeftOpen == "open"

\* conn.close(): the state of the call's connection when it returns.
ConnAtReturn == "closed"

\* After the loop: commit, close the cursor and the connection, return.
InsertCommit ==
    /\ wpc = "execute"
    /\ inserted_count = Len(timeseries_data)
    /\ table' = txn
    /\ conn' = ConnAtReturn
    /\ wpc' = "returned"
    /\ lastWrite' = LastWins(lastWrite, wargs, timeseries_data)
    /\ UNCHANGED <<created, wargs, timeseries_data, inserted_count, txn, repeat>>
    /\ UNCHANGED normVars
    /\ UNCHANGED <<gateVars, mainVars>>

\* ---------------------------------------------------------- SpecWriter
\* A direct call of insert_data_into_db with any arguments. Its batch is any
\* sequence of at most MaxBatchLen entries; the entries are chosen one by
\* one as the loop reaches them (FeedEntry), which yields the same calls as
\* choosing the whole batch at the call.
CallInsert ==
    /\ pc = "harness"
    /\ wpc \in {"idle", "returned", "raised"}
    /\ \E a \in WriterArgs : wargs' = a
    /\ timeseries_data' = <<>>
    /\ wpc' = "connect"
    /\ conn' = "none"
    /\ inserted_count' = 0
    /\ txn' = table
    /\ repeat' = FALSE
    /\ UNCHANGED <<storeVars, gateVars, mainVars, lastWrite>>
    /\ UNCHANGED normVars

FeedEntry ==
    /\ pc = "harness"
    /\ wpc = "execute"
    /\ ~repeat
    /\ inserted_count = Len(timeseries_data)
    /\ Len(timeseries_data) < MaxBatchLen
    /\ \E entry \in Entries : timeseries_data' = Append(timeseries_data, entry)
    /\ UNCHANGED <<storeVars, wpc, wargs, inserted_count, txn, conn>>
    /\ UNCHANGED <<gateVars, mainVars, histVars>>
    /\ UNCHANGED normVars

\* The call that just returned, made again with the same arguments.
CallInsertAgain ==
    /\ pc = "harness"
    /\ wpc = "returned"
    /\ ~repeat
    /\ wpc' = "connect"
    /\ conn' = "none"
    /\ inserted_count' = 0
    /\ repeat' = TRUE
    /\ UNCHANGED <<storeVars, wargs, timeseries_data, txn>>
    /\ UNCHANGED <<gateVars, mainVars, lastWrite>>
    /\ UNCHANGED normVars

InitStore ==
    /\ table = EmptyBag
    /\ created = FALSE
    /\ lastWrite = <<>>

InitCall ==
    /\ wpc = "idle"
    /\ wargs = NoArgs
    /\ timeseries_data = <<>>
    /\ inserted_count = 0
    /\ txn = EmptyBag
    /\ conn = "none"
    /\ repeat = FALSE

InitGateIdle ==
    /\ retries = DefaultRetries
    /\ delay = DefaultDelay
    /\ attempts = 0
    /\ slept = 0
    /\ gate = "none"
    /\ probe = "none"

InitNormIdle ==
    /\ raw_input = <<>>
    /\ prepared_data = <<>>

InitMainIdle ==
    /\ config = <<>>
    /\ requests_get = "library"
    /\ fi = 1 /\ ri = 1 /\ si = 1
    /\ timestamps = <<>>
    /\ todo = <<>>
    /\ http = "none"
    /\ crash = NoException
    /\ issued = <<>>
    /\ idxLog = <<>>
    /\ run = 0
    /\ remote = <<>>
    /\ first = NoRun
    /\ InitNormIdle

InitWriter ==
    /\ InitStore /\ InitCall /\ InitGateIdle /\ InitMainIdle
    /\ pc = "harness"

NextWriter ==
    \/ CallInsert
    \/ FeedEntry
    \/ CallInsertAgain
    \/ InsertConnect
    \/ InsertExecute
    \/ InsertCommit

SpecWriter == InitWriter /\ [][NextWriter]_vars

\* ---------------------------------------------------------- wait_for_db
\* for attempt in range(1, retries + 1), with one pass too many.
LoopContinuesOffByOne(made, n) == made <= n

\* for attempt in range(1, retries + 1): another pass follows `made` passes.
LoopContinues(made, n) == made < n

\* A pass of the loop: connect; on success close the probe and return True,
\* on psycopg2.OperationalError sleep for `delay`.
WaitForDbAttempt ==
    /\ pc \in {"wait_db", "harness_gate"}
    /\ gate = "none"
    /\ LoopContinues(attempts, retries)
    /\ attempts' = attempts + 1
    /\ \E outcome \in {"ok", "OperationalError"} :
         IF outcome = "ok"
         THEN /\ probe' = "closed"
              /\ gate' = "true"
              /\ UNCHANGED slept
         ELSE /\ slept' = slept + delay
              /\ UNCHANGED <<probe, gate>>
    /\ UNCHANGED <<retries, delay>>
    /\ UNCHANGED <<storeVars, callVars, mainVars, histVars>>
    /\ UNCHANGED normVars

\* The loop is over: return False.
WaitForDbExhausted ==
    /\ pc \in {"wait_db", "harness_gate"}
    /\ gate = "none"
    /\ ~LoopContinues(attempts, retries)
    /\ gate' = "false"
    /\ UNCHANGED <<retries, delay, attempts, slept, probe>>
    /\ UNCHANGED <<storeVars, callVars, mainVars, histVars>>
    /\ UNCHANGED normVars

\* ------------------------------------------------------------ SpecGate
InitGate ==
    /\ InitStore /\ InitCall /\ InitMainIdle
    /\ pc = "harness_gate"
    /\ retries \in 0..MaxRetries
    /\ delay \in Delays
    /\ attempts = 0
    /\ slept = 0
    /\ gate = "none"
    /\ probe = "none"

NextGate ==
    \/ WaitForDbAttempt
    \/ WaitForDbExhausted

SpecGate == InitGate /\ [][NextGate]_vars

\* ------------------------------------------------------------ requests
\* The scheme of the URL each fetcher builds.
TimestampUrlScheme == "https"
TimeseriesUrlScheme == "hhttps"

\* How requests.get(url, timeout=60) followed by raise_for_status() ends:
\* "ok", or the exception raised. The library has no connection adapter for a
\* scheme other than http and https and raises InvalidSchema before it sends
\* anything; a test double answers whatever the URL.
RequestsGet(binding, scheme) ==
    IF binding = "library" /\ scheme \notin {"http", "https"}
    THEN {"InvalidSchema"}
    ELSE {"ok", "HTTPError", "ConnectionError"}

\* An except clause that catches nothing.
CatchesNothing(exc) == FALSE

\* except requests.exceptions.HTTPError
CatchesHTTPError(exc) == exc = "HTTPError"

\* response.json(), then data if isinstance(data, list) else data.get(field, []).
\* A body that is no JSON raises in json(), a JSON value that is neither an
\* array nor an object has no get().
Payload(body) ==
    CASE body.shape = "array"          -> [raised |-> "none", result |-> body.items]
      [] body.shape = "object"         -> [raised |-> "none", result |-> body.items]
      [] body.shape = "object_without" -> [raised |-> "none", result |-> <<>>]
      [] body.shape = "undecodable"    -> [raised |-> "JSONDecodeError", result |-> <<>>]
      [] OTHER                         -> [raised |-> "AttributeError", result |-> <<>>]

\* What a fetcher hands its caller: the return value, or the exception that
\* leaves it ("none": it returns).
FetchReturn(how, body) ==
    IF how = "ok" THEN Payload(body)
    ELSE IF CatchesHTTPError(how) THEN [raised |-> "none", result |-> <<>>]
    ELSE [raised |-> how, result |-> <<>>]

\* The answers of one fetch: every outcome, and every body of a success.
Answers(binding, scheme, bodies) ==
    {[outcome |-> o, body |-> b] :
        o \in RequestsGet(binding, scheme) \ {"ok"}, b \in {[shape |-> "none", items |-> <<>>]}}
    \cup {[outcome |-> o, body |-> b] : o \in RequestsGet(binding, scheme) \cap {"ok"}, b \in bodies}

\* The answers the remote API may give `url`: in the runs of SpecTwice the
\* answer it gave that URL before, if it was asked before.
AnswersTo(url, all) ==
    IF run > 0 /\ url \in DOMAIN remote THEN {a \in all : a = remote[url]} ELSE all

Remember(url, ans) ==
    IF run > 0 /\ url \notin DOMAIN remote THEN remote @@ (url :> ans) ELSE remote

\* --------------------------------------------------------- prepare_data
\* len(raw_data_pair) >= 2 alone.
IsPairByLength(raw) == Len(raw.elems) >= 2

\* isinstance(raw_data_pair, (list, tuple)) and len(raw_data_pair) >= 2
IsPair(raw) == raw.kind = "list" /\ Len(raw.elems) >= 2

RECURSIVE PrepareData(_)
PrepareData(raw_data) ==
    IF raw_data = <<>> THEN <<>>
    ELSE LET raw_data_pair == Head(raw_data)
         IN  IF IsPair(raw_data_pair)
             THEN <<[timestamp |-> raw_data_pair.elems[1], value |-> raw_data_pair.elems[2]]>>
                      \o PrepareData(Tail(raw_data))
             ELSE PrepareData(Tail(raw_data))

\* ------------------------------------------------------- SpecNormalizer
\* The raw sequences of at most n entries.
RECURSIVE RawSequences(_)
RawSequences(n) ==
    IF n = 0 THEN {<<>>}
    ELSE RawSequences(n - 1)
            \cup {Append(q, e) : q \in {p \in RawSequences(n - 1) : Len(p) = n - 1},
                                 e \in RawEntries}

\* prepared_data = prepare_data(raw_data)
PrepareDataCall ==
    /\ pc = "harness_prepare"
    /\ prepared_data' = PrepareData(raw_input)
    /\ pc' = "prepared"
    /\ UNCHANGED <<config, requests_get, fi, ri, si, timestamps, todo, http, crash,
                   issued, idxLog, run, remote, first>>
    /\ UNCHANGED <<storeVars, callVars, gateVars, histVars, raw_input>>

InitNormalizer ==
    /\ InitStore /\ InitCall /\ InitGateIdle
    /\ config = <<>>
    /\ requests_get = "library"
    /\ fi = 1 /\ ri = 1 /\ si = 1
    /\ timestamps = <<>>
    /\ todo = <<>>
    /\ http = "none"
    /\ crash = NoException
    /\ issued = <<>>
    /\ idxLog = <<>>
    /\ run = 0
    /\ remote = <<>>
    /\ first = NoRun
    /\ pc = "harness_prepare"
    /\ raw_input \in RawSequences(MaxRawLen)
    /\ prepared_data = <<>>

NextNormalizer ==
    \/ PrepareDataCall

SpecNormalizer == InitNormalizer /\ [][NextNormalizer]_vars

\* ----------------------------------------------------------------- main
\* config.get(key, default)
ConfigGet(cfg, key, default) == IF key \in DOMAIN cfg THEN cfg[key] ELSE default

FilterIds(cfg) == ConfigGet(cfg, "FILTER_IDS", <<>>)
Regions(cfg) == ConfigGet(cfg, "REGIONS", <<>>)
Resolutions(cfg) == ConfigGet(cfg, "RESOLUTIONS", <<>>)
TimestampMode(cfg) == ConfigGet(cfg, "TIMESTAMP_MODE", "newest")
\* None is <<>>, a configured value v is <<v>>.
SpecificTimestamp(cfg) ==
    IF "SPECIFIC_TIMESTAMP" \in DOMAIN cfg THEN <<cfg["SPECIFIC_TIMESTAMP"]>> ELSE <<>>

\* A check that forgets the resolutions.
ConfigCheckWithoutResolutions(cfg) == FilterIds(cfg) # <<>> /\ Regions(cfg) # <<>>

\* not (not filter_ids or not regions or not resolutions)
ConfigCheckPasses(cfg) ==
    ~(FilterIds(cfg) = <<>> \/ Regions(cfg) = <<>> \/ Resolutions(cfg) = <<>>)

\* if specific_timestamp: None and 0 are both false.
Truthy(opt) == opt # <<>> /\ opt[1] # 0

\* timestamps_to_process
SelectTimestamps(mode, specific, index) ==
    IF mode = "all" THEN index
    ELSE IF mode = "specific"
         THEN IF Truthy(specific) THEN <<specific[1]>> ELSE <<index[Len(index)]>>
         ELSE <<index[Len(index)]>>

\* The combination the loops stand at, under the label of the first filter.
ArgsUnderFirstLabel ==
    [filter_label |-> FilterIds(config)[1][1], filter_id |-> FilterIds(config)[fi][2],
     region |-> Regions(config)[ri], resolution |-> Resolutions(config)[si]]

\* The combination the three loops stand at.
CurrentArgs ==
    [filter_label |-> FilterIds(config)[fi][1], filter_id |-> FilterIds(config)[fi][2],
     region |-> Regions(config)[ri], resolution |-> Resolutions(config)[si]]

\* The innermost loop goes on to its next item; a loop that is exhausted hands
\* over to the loop around it; after the outermost, main returns.
NextCombination ==
    IF si < Len(Resolutions(config))
    THEN /\ si' = si + 1 /\ UNCHANGED <<fi, ri>> /\ pc' = "fetch_index"
    ELSE IF ri < Len(Regions(config))
    THEN /\ ri' = ri + 1 /\ si' = 1 /\ UNCHANGED fi /\ pc' = "fetch_index"
    ELSE IF fi < Len(FilterIds(config))
    THEN /\ fi' = fi + 1 /\ ri' = 1 /\ si' = 1 /\ pc' = "fetch_index"
    ELSE /\ pc' = "done" /\ UNCHANGED <<fi, ri, si>>

\* for ts in timestamps_to_process: the next pass, or the next combination.
NextTimestamp(left) ==
    IF left # <<>> THEN pc' = "fetch_series" /\ UNCHANGED <<fi, ri, si>>
    ELSE NextCombination

\* load_config and the check of the three lists.
LoadConfig ==
    /\ pc = "start"
    /\ pc' = IF ConfigCheckPasses(config) THEN "wait_db" ELSE "exit_config"
    /\ UNCHANGED <<config, requests_get, fi, ri, si, timestamps, todo, http, crash,
                   issued, idxLog, run, remote, first>>
    /\ UNCHANGED <<storeVars, callVars, gateVars, histVars>>
    /\ UNCHANGED normVars

\* if not wait_for_db(...): return
AfterWaitForDb ==
    /\ pc = "wait_db"
    /\ gate # "none"
    /\ pc' = IF gate = "true" THEN "fetch_index" ELSE "exit_db"
    /\ UNCHANGED <<config, requests_get, fi, ri, si, timestamps, todo, http, crash,
                   issued, idxLog, run, remote, first>>
    /\ UNCHANGED <<storeVars, callVars, gateVars, histVars>>
    /\ UNCHANGED normVars

\* timestamps = fetch_timestamps(...), the skip of an empty index, and the
\* choice of timestamps_to_process.
FetchTimestamps ==
    /\ pc = "fetch_index"
    /\ \E ans \in AnswersTo(<<CurrentArgs.filter_id, CurrentArgs.region, CurrentArgs.resolution>>,
                            Answers(requests_get, TimestampUrlScheme, IndexBodies)) :
         LET r == FetchReturn(ans.outcome, ans.body)
         IN  /\ http' = ans.outcome
             /\ remote' = Remember(<<CurrentArgs.filter_id, CurrentArgs.region,
                                     CurrentArgs.resolution>>, ans)
             /\ idxLog' = Append(idxLog, <<CurrentArgs.filter_id, CurrentArgs.region,
                                           CurrentArgs.resolution>>)
             /\ IF r.raised # "none"
                THEN /\ pc' = "crashed"
                     /\ crash' = [from |-> "fetch_timestamps", type |-> r.raised]
                     /\ UNCHANGED <<fi, ri, si, timestamps, todo, issued>>
                ELSE /\ crash' = crash
                     /\ timestamps' = r.result
                     /\ IF r.result = <<>>
                        THEN /\ NextCombination
                             /\ UNCHANGED <<todo, issued>>
                        ELSE /\ todo' = SelectTimestamps(TimestampMode(config),
                                                         SpecificTimestamp(config), r.result)
                             /\ issued' = <<>>
                             /\ pc' = "fetch_series"
                             /\ UNCHANGED <<fi, ri, si>>
    /\ UNCHANGED <<config, requests_get, run, first>>
    /\ UNCHANGED <<storeVars, callVars, gateVars, histVars>>
    /\ UNCHANGED normVars

\* A pass of the loop over timestamps_to_process: fetch_timeseries, the skip
\* of an empty series, prepare_data, and the call of insert_data_into_db or
\* the skip of an empty batch.
FetchTimeseries ==
    /\ pc = "fetch_series"
    /\ todo # <<>>
    /\ \E ans \in AnswersTo(<<CurrentArgs.filter_id, CurrentArgs.region, CurrentArgs.resolution,
                              Head(todo)>>,
                            Answers(requests_get, TimeseriesUrlScheme, SeriesBodies)) :
         LET r == FetchReturn(ans.outcome, ans.body)
             prepared_timeseries_data == PrepareData(r.result)
         IN  /\ http' = ans.outcome
             /\ remote' = Remember(<<CurrentArgs.filter_id, CurrentArgs.region,
                                     CurrentArgs.resolution, Head(todo)>>, ans)
             /\ issued' = Append(issued, Head(todo))
             /\ todo' = Tail(todo)
             /\ IF r.raised # "none"
                THEN /\ pc' = "crashed"
                     /\ crash' = [from |-> "fetch_timeseries", type |-> r.raised]
                     /\ UNCHANGED <<fi, ri, si, callVars>>
                ELSE IF r.result # <<>> /\ prepared_timeseries_data # <<>>
                THEN /\ crash' = crash
                     /\ pc' = "insert"
                     /\ wpc' = "connect"
                     /\ wargs' = CurrentArgs
                     /\ timeseries_data' = prepared_timeseries_data
                     /\ inserted_count' = 0
                     /\ conn' = "none"
                     /\ txn' = table
                     /\ UNCHANGED <<fi, ri, si>>
                ELSE /\ crash' = crash
                     /\ NextTimestamp(Tail(todo))
                     /\ UNCHANGED callVars
    /\ UNCHANGED <<config, requests_get, timestamps, idxLog, run, first>>
    /\ UNCHANGED <<storeVars, gateVars, histVars>>
    /\ UNCHANGED normVars

\* insert_data_into_db returned: the loop goes on.
InsertReturned ==
    /\ pc = "insert"
    /\ wpc = "returned"
    /\ wpc' = "idle"
    /\ wargs' = NoArgs
    /\ timeseries_data' = <<>>
    /\ inserted_count' = 0
    /\ txn' = EmptyBag
    /\ NextTimestamp(todo)
    /\ UNCHANGED <<conn, config, requests_get, timestamps, todo, http, crash, issued,
                   idxLog, run, remote, first>>
    /\ UNCHANGED <<storeVars, gateVars, histVars>>
    /\ UNCHANGED normVars

\* insert_data_into_db raised: nothing in main catches it.
InsertRaised ==
    /\ pc = "insert"
    /\ wpc = "raised"
    /\ pc' = "crashed"
    /\ crash' = [from |-> "insert_data_into_db", type |-> "psycopg2.Error"]
    /\ UNCHANGED <<config, requests_get, fi, ri, si, timestamps, todo, http, issued,
                   idxLog, run, remote, first>>
    /\ UNCHANGED <<storeVars, callVars, gateVars, histVars>>
    /\ UNCHANGED normVars

Init ==
    /\ InitStore /\ InitCall /\ InitGateIdle
    /\ pc = "start"
    /\ config \in Configs
    /\ requests_get \in {"library", "patched"}
    /\ fi = 1 /\ ri = 1 /\ si = 1
    /\ timestamps = <<>>
    /\ todo = <<>>
    /\ http = "none"
    /\ crash = NoException
    /\ issued = <<>>
    /\ idxLog = <<>>
    /\ run = 0
    /\ remote = <<>>
    /\ first = NoRun
    /\ InitNormIdle

Next ==
    \/ LoadConfig
    \/ WaitForDbAttempt
    \/ WaitForDbExhausted
    \/ AfterWaitForDb
    \/ FetchTimestamps
    \/ FetchTimeseries
    \/ InsertConnect
    \/ InsertExecute
    \/ InsertCommit
    \/ InsertReturned
    \/ InsertRaised

Spec == Init /\ [][Next]_vars

\* ----------------------------------------------------------- SpecTwice
\* main() has returned or has been ended by an exception: it is started again,
\* on the table the first run left and against the same remote API.
RunAgain ==
    /\ run = 1
    /\ pc \in {"done", "crashed", "exit_db", "exit_config"}
    /\ first' = [pc |-> pc, crash |-> crash, table |-> table]
    /\ run' = 2
    /\ pc' = "start"
    /\ fi' = 1 /\ ri' = 1 /\ si' = 1
    /\ timestamps' = <<>>
    /\ todo' = <<>>
    /\ http' = "none"
    /\ crash' = NoException
    /\ issued' = <<>>
    /\ idxLog' = <<>>
    /\ attempts' = 0
    /\ slept' = 0
    /\ gate' = "none"
    /\ probe' = "none"
    /\ wpc' = "idle"
    /\ wargs' = NoArgs
    /\ timeseries_data' = <<>>
    /\ inserted_count' = 0
    /\ txn' = EmptyBag
    /\ conn' = "none"
    /\ UNCHANGED <<storeVars, histVars, retries, delay, config, requests_get, remote>>
    /\ UNCHANGED normVars

InitTwice ==
    \/ InitWriter
    \/ /\ InitStore /\ InitCall /\ InitGateIdle
       /\ pc = "start"
       /\ config \in TwiceConfigs
       /\ requests_get \in {"library", "patched"}
       /\ fi = 1 /\ ri = 1 /\ si = 1
       /\ timestamps = <<>>
       /\ todo = <<>>
       /\ http = "none"
       /\ crash = NoException
       /\ issued = <<>>
       /\ idxLog = <<>>
       /\ run = 1
       /\ remote = <<>>
       /\ first = NoRun
       /\ InitNormIdle

NextTwice ==
    \/ NextWriter
    \/ Next
    \/ RunAgain

SpecTwice == InitTwice /\ [][NextTwice]_vars

\* ================================================================ claims

\* ------------------------------------------------------------------ C1
\* C1 (SpecWriter). Uniqueness: after any sequence of upsert batches, with
\* any arguments, any timestamps, any repetition, repeated timestamps inside
\* one batch included, no two committed rows of energy_timeseries share
\* (filter_id, region, resolution, timestamp).
C1_Uniqueness ==
    /\ \A r \in BagToSet(table) : table[r] = 1
    /\ \A r1, r2 \in BagToSet(table) : Key(r1) = Key(r2) => r1 = r2

\* A batch that names one timestamp twice has been committed into a table that
\* holds rows of both combinations.
C1_Witness ==
    /\ wpc = "returned"
    /\ Len(timeseries_data) >= 2
    /\ timeseries_data[1].timestamp = timeseries_data[2].timestamp
    /\ \E r1, r2 \in BagToSet(table) : r1.region # r2.region

\* ------------------------------------------------------------------ C2
\* Both runs of main() have ended, by a return or by an exception of a fetch,
\* neither cut short by the store.
SecondRunEnded ==
    /\ run = 2
    /\ pc \in {"done", "crashed"}
    /\ first.pc \in {"done", "crashed"}
    /\ crash.from # "insert_data_into_db"
    /\ first.crash.from # "insert_data_into_db"

\* C2 (SpecTwice). Idempotence: a call of insert_data_into_db that repeats
\* the call that just returned, with the same batch and the same arguments,
\* commits a table identical to the one the first call left: the same rows,
\* each once, with the same value and filter_label; and a second run of
\* main() against a remote API that answers every URL as in the first run
\* ends with the table the first run left, when the store fails in neither.
C2_Idempotence ==
    /\ [][(repeat /\ wpc = "execute" /\ wpc' = "returned") => table' = table]_vars
    /\ [](SecondRunEnded => table = first.table)

\* The repeated call has returned; its batch has several records and the table
\* holds rows.
C2_Witness ==
    /\ repeat
    /\ wpc = "returned"
    /\ Len(timeseries_data) >= 2
    /\ timeseries_data[1] # timeseries_data[2]
    /\ BagCardinality(table) >= 2

\* The second run of main() has returned as the first did, and the table holds
\* rows written under the second label of the filter_id.
C2_WitnessTwice ==
    /\ SecondRunEnded
    /\ pc = "done"
    /\ first.pc = "done"
    /\ \E r \in BagToSet(table) : r.filter_label = "usage"

\* ------------------------------------------------------------------ C3
\* C3 (SpecWriter). Last write wins: after any sequence of committed batches
\* the table holds, for every key upserted at least once, exactly one row, and
\* its value and filter_label are those of the latest upsert of that key, the
\* last entry in batch order among entries of one batch with the same
\* timestamp; it holds no row of a key never upserted.
C3_LastWriteWins ==
    /\ \A k \in DOMAIN lastWrite :
         LET rows == {r \in BagToSet(table) : Key(r) = k}
         IN  /\ Cardinality(rows) = 1
             /\ \A r \in rows : /\ table[r] = 1
                                /\ r.value = lastWrite[k].value
                                /\ r.filter_label = lastWrite[k].filter_label
    /\ \A r \in BagToSet(table) : Key(r) \in DOMAIN lastWrite

\* A committed batch names one timestamp twice with different values, under
\* the second label of a combination.
C3_Witness ==
    /\ wpc = "returned"
    /\ wargs.filter_label = "usage"
    /\ Len(timeseries_data) >= 2
    /\ timeseries_data[1].timestamp = timeseries_data[2].timestamp
    /\ timeseries_data[1].value # timeseries_data[2].value
    /\ \E r \in BagToSet(table) : r.filter_label = "load" /\ r.region = "AT"

\* ------------------------------------------------------------------ C4
\* The combination the loops stand at, counted in the order of the
\* cross-product, and the number of combinations.
CombinationCount == Len(FilterIds(config)) * Len(Regions(config)) * Len(Resolutions(config))
Ordinal(f, r, s) ==
    ((f - 1) * Len(Regions(config)) + (r - 1)) * Len(Resolutions(config)) + s

\* C4 (Spec). Fault isolation: a fetch, of the timestamp index or of a series,
\* that ends in an HTTP error leaves every committed row as it was and does not
\* end the run: the driver goes on to the next timestamp of the combination,
\* or to the next combination, or returns normally after the last one; and a
\* run that returns normally has requested the index of every combination.
C4_FaultIsolation ==
    /\ [][(pc \in {"fetch_index", "fetch_series"} /\ http' = "HTTPError") =>
            /\ table' = table
            /\ crash' = NoException
            /\ IF pc = "fetch_series" /\ Len(todo) > 1
               THEN pc' = "fetch_series" /\ todo' = Tail(todo) /\ <<fi', ri', si'>> = <<fi, ri, si>>
               ELSE IF Ordinal(fi, ri, si) < CombinationCount
               THEN pc' = "fetch_index" /\ Ordinal(fi', ri', si') = Ordinal(fi, ri, si) + 1
               ELSE pc' = "done"]_vars
    /\ [](pc = "done" => Len(idxLog) = CombinationCount)

\* The first combination's rows are committed, a fetch of the second has just
\* met an HTTP error, and the driver stands at the index fetch of the third.
C4_Witness ==
    /\ http = "HTTPError"
    /\ Len(idxLog) = 2
    /\ pc = "fetch_index"
    /\ Ordinal(fi, ri, si) = 3
    /\ \E r \in BagToSet(table) :
         <<r.filter_id, r.region, r.resolution>> = idxLog[1]
    /\ idxLog[1] # idxLog[2]

\* ------------------------------------------------------------------ C5
\* C5 (Spec). Fetcher fail-soft contract: whatever the HTTP call ends in,
\* success, an HTTP error status or a transport failure, fetch_timestamps and
\* fetch_timeseries return a sequence and no exception of the HTTP call leaves
\* them, and the sequence is empty after every outcome but success.
C5_FetchersFailSoft ==
    /\ ~(crash.from \in {"fetch_timestamps", "fetch_timeseries"}
            /\ crash.type \in {"ConnectionError", "InvalidSchema"})
    /\ \A scheme \in {TimestampUrlScheme, TimeseriesUrlScheme} :
         \A how \in RequestsGet(requests_get, scheme) \ {"ok"} :
            FetchReturn(how, [shape |-> "none", items |-> <<>>]).result = <<>>

\* ------------------------------------------------------------------ C6
\* C6 (SpecGate). Readiness bound: wait_for_db with retries = n never makes
\* more than n attempts; the attempt that succeeds closes its probe connection
\* and returns True at once, and no attempt follows a return; it returns False
\* only after exactly n attempts, none of which succeeded.
C6_ReadinessBound ==
    /\ [](attempts <= retries)
    /\ [](gate = "true" => probe = "closed" /\ attempts >= 1)
    /\ [](gate = "false" => attempts = retries /\ probe = "none")
    /\ [](gate = "none" => probe = "none")
    /\ [][gate # "none" => attempts' = attempts /\ gate' = gate]_vars
    /\ [][probe' # probe => probe' = "closed" /\ gate' = "true"]_vars

\* retries = 3: three attempts have failed and False is returned.
C6_Witness ==
    /\ retries = 3
    /\ attempts = 3
    /\ gate = "false"
    /\ slept = 3 * delay
    /\ delay > 0

\* ------------------------------------------------------------------ C7
ListsConfigured(cfg) ==
    \A k \in {"FILTER_IDS", "REGIONS", "RESOLUTIONS"} : k \in DOMAIN cfg /\ cfg[k] # <<>>
NoProbe == attempts = 0 /\ probe = "none" /\ gate = "none"
NoFetch == idxLog = <<>> /\ issued = <<>> /\ http = "none"
NoWrite == wpc = "idle" /\ conn = "none" /\ ~created /\ table = EmptyBag

\* C7 (Spec). Fatal classes abort before any work: nothing is fetched and
\* nothing is written before the configuration check has passed and then
\* wait_for_db has returned True; with a filter, region or resolution list
\* missing or empty the run ends without a store probe, a fetch or a write;
\* when wait_for_db returns False the run ends without a fetch or a write.
C7_FatalBeforeWork ==
    /\ ~ListsConfigured(config) => NoProbe /\ NoFetch /\ NoWrite /\ pc \in {"start", "exit_config"}
    /\ pc = "start" => NoProbe
    /\ gate # "true" => NoFetch /\ NoWrite
    /\ gate = "false" => pc \in {"wait_db", "exit_db"}
    /\ pc = "exit_db" => gate = "false"
    /\ pc = "exit_config" => ~ListsConfigured(config)

\* The store never answered: the run has ended after the last probe.
C7_Witness ==
    /\ pc = "exit_db"
    /\ attempts = DefaultRetries
    /\ ListsConfigured(config)

\* ------------------------------------------------------------------ C8
\* The selection as claimed: the configured specific_timestamp whenever one is
\* configured, whatever its value.
ClaimedSelection(cfg, index) ==
    IF TimestampMode(cfg) = "all" THEN index
    ELSE IF TimestampMode(cfg) = "specific" /\ "SPECIFIC_TIMESTAMP" \in DOMAIN cfg
    THEN <<cfg["SPECIFIC_TIMESTAMP"]>>
    ELSE <<index[Len(index)]>>

\* C8 (Spec). Timestamp-mode selection: for a combination with a non-empty
\* index, the timestamps the series is requested for, those already requested
\* followed by those still to come, are the last element of the index in mode
\* newest, the whole index in its order in mode all, the configured
\* specific_timestamp in mode specific, whatever integer it is, and the last
\* element of the index in mode specific with none configured.
C8_TimestampSelection ==
    (timestamps # <<>> /\ TimestampMode(config) \in {"newest", "all", "specific"})
        => issued \o todo = ClaimedSelection(config, timestamps)

\* ------------------------------------------------------------------ C9
\* C9 as claimed (SpecWriter). Per-statement commit: when a batch is
\* interrupted after some of its statements have executed, what those
\* statements wrote is in the table.
C9_PerStatementCommit ==
    (wpc = "raised" /\ conn = "leaked") => table = txn

\* C9 as amended (SpecWriter). One commit per batch: the table changes only in
\* the commit that follows the last statement of a batch, which makes all the
\* batch's writes durable together; a batch that is interrupted leaves the
\* table as the earlier commits left it.
C9_OneCommitPerBatch ==
    /\ [][table' # table =>
            /\ wpc = "execute"
            /\ inserted_count = Len(timeseries_data)
            /\ wpc' = "returned"
            /\ table' = txn]_vars
    /\ [][wpc' = "raised" => table' = table]_vars

\* A batch of three records has been interrupted after two statements that
\* changed rows, over a table that holds rows of earlier batches.
C9_Witness ==
    /\ wpc = "raised"
    /\ conn = "leaked"
    /\ inserted_count = 2
    /\ Len(timeseries_data) = 3
    /\ table # EmptyBag
    /\ txn # table

\* ----------------------------------------------------------------- C10
\* C10 (Spec). Containment of write failures: a failure while one timestamp's
\* batch is upserted, at the connection or at a statement, does not end the
\* run.
C10_WriteFailureContained ==
    ~(pc = "crashed" /\ crash.from = "insert_data_into_db")

\* ----------------------------------------------------------------- C11
\* C11 (Spec). Payload shape tolerance: a successful response whose body is a
\* bare array yields the array, an object yields its named field, an object
\* without the field yields the empty sequence, and a body of any other shape
\* (number, string, null, no JSON at all) yields nothing: no exception of the
\* decoding leaves a fetcher, so the run is not ended by it.
C11_ShapeTolerance ==
    /\ \A bodies \in {IndexBodies, SeriesBodies} : \A b \in bodies :
         /\ b.shape \in {"array", "object"} => Payload(b).result = b.items
         /\ b.shape \notin {"array", "object"} => Payload(b).result = <<>>
    /\ ~(crash.from \in {"fetch_timestamps", "fetch_timeseries"}
            /\ crash.type \in {"AttributeError", "JSONDecodeError"})

\* ----------------------------------------------------------------- C12
\* The positions of raw whose entry is a list of two elements or more, and the
\* place of such a position among them.
Accepted(raw) == {i \in 1..Len(raw) : raw[i].kind = "list" /\ Len(raw[i].elems) >= 2}
Rank(raw, i) == Cardinality({j \in Accepted(raw) : j <= i})

\* C12 (SpecNormalizer). Normalizer filtering: prepare_data returns, whatever
\* the raw sequence, one record for each entry that is a list of two elements
\* or more and none for any other entry, in the order of the entries and
\* without dropping repetitions; the record's timestamp is the entry's first
\* element and its value the second, null included, further elements ignored.
C12_NormalizerFiltering ==
    pc = "prepared" =>
        /\ Len(prepared_data) = Cardinality(Accepted(raw_input))
        /\ \A i \in Accepted(raw_input) :
             prepared_data[Rank(raw_input, i)] =
                 [timestamp |-> raw_input[i].elems[1], value |-> raw_input[i].elems[2]]

\* prepare_data has returned two records, the first with a null value and the
\* second from a list of three elements, having dropped the string of two
\* characters between them.
C12_Witness ==
    /\ pc = "prepared"
    /\ raw_input = << List(<<"10", "null">>), NotList("string", <<"x", "y">>),
                      List(<<"x", "y", "z">>) >>
    /\ prepared_data = <<[timestamp |-> "10", value |-> "null"],
                         [timestamp |-> "x", value |-> "y"]>>

\* ----------------------------------------------------------------- C13
KeysOf(tbl) == {Key(r) : r \in BagToSet(tbl)}
\* The keys the batch of the current call names.
BatchKeys == {Key(NewRow(wargs, timeseries_data[i])) : i \in 1..Len(timeseries_data)}

\* C13 (SpecTwice). Rows are never deleted and foreign keys are untouched:
\* no step, of the writer, of the driver or of a second run, takes a key out
\* of the committed table, and every committed row whose key the batch of the
\* current call does not name is in the table after the step as before it,
\* with the same value and filter_label.
C13_NoDeletion ==
    [][/\ KeysOf(table) \subseteq KeysOf(table')
       /\ \A r \in BagToSet(table) :
            Key(r) \notin BatchKeys =>
                r \in BagToSet(table') /\ table'[r] = table[r]]_vars

\* A batch has been committed that overwrote a row, while the table holds a
\* row of the same combination at another timestamp and a row of another
\* combination.
C13_Witness ==
    /\ wpc = "returned"
    /\ \E r \in BagToSet(table) :
         /\ Key(r) \in BatchKeys
         /\ r.value # timeseries_data[1].value
    /\ \E r \in BagToSet(table) :
         /\ Key(r) \notin BatchKeys
         /\ <<r.filter_id, r.region, r.resolution>>
               = <<wargs.filter_id, wargs.region, wargs.resolution>>
    /\ \E r \in BagToSet(table) : r.region # wargs.region

\* ----------------------------------------------------------------- C14
\* The connections that are open: the probe's, the write batch's.
OpenConnections ==
    (IF probe = "open" THEN 1 ELSE 0) + (IF conn \in {"open", "leaked"} THEN 1 ELSE 0)

\* C14 (Spec). Scoped connection lifetime: at most one store connection is
\* open at any time, a connection is acquired only while no other is open,
\* and whenever the driver stands at the start of a combination, or goes on
\* to another timestamp or combination, or returns, the probe's connection
\* and every write batch's connection have been closed.
C14_ScopedConnection ==
    /\ [](OpenConnections <= 1)
    /\ [](pc \in {"fetch_index", "fetch_series", "done"} =>
            probe = "closed" /\ conn \in {"none", "closed"})
    /\ [][(conn' # conn /\ conn' \in {"none", "open"}) =>
            conn \in {"none", "closed"} /\ probe # "open"]_vars

\* A write batch of the first combination has returned, its connection
\* closed, and the driver stands at the index fetch of the second.
C14_Witness ==
    /\ pc = "fetch_index"
    /\ Ordinal(fi, ri, si) = 2
    /\ conn = "closed"
    /\ probe = "closed"
    /\ table # EmptyBag

\* ----------------------------------------------------------------- C15
\* The k-th combination of the cross-product, filters outermost, resolutions
\* innermost, as the arguments of its index fetch.
CombinationAt(k) ==
    LET nr == Len(Regions(config))
        ns == Len(Resolutions(config))
        f  == ((k - 1) \div (nr * ns)) + 1
        r  == (((k - 1) \div ns) % nr) + 1
        s  == ((k - 1) % ns) + 1
    IN  <<FilterIds(config)[f][2], Regions(config)[r], Resolutions(config)[s]>>

\* The index fetches issued so far are those of the first combinations of the
\* cross-product, one each, in order, and the loops stand at the last of them.
IndexFetchesInOrder ==
    /\ Len(idxLog) <= CombinationCount
    /\ \A k \in 1..Len(idxLog) : idxLog[k] = CombinationAt(k)
    /\ pc \in {"fetch_series", "insert"} => Ordinal(fi, ri, si) = Len(idxLog)
    /\ pc = "fetch_index" => Ordinal(fi, ri, si) = Len(idxLog) + 1

\* C15 (Spec). Driver coverage and termination: in a run that has passed the
\* configuration check and the readiness gate the index fetches are issued in
\* the order of the cross-product, one per combination, one combination at a
\* time, and whatever the remote API and the store answer, the run does not
\* end before the index of every combination has been fetched.
C15_DriverCoverage ==
    /\ IndexFetchesInOrder
    /\ pc \in {"done", "crashed"} => Len(idxLog) = CombinationCount

\* ----------------------------------------------------------------- C16
\* The row belongs to a combination of the configured cross-product, under a
\* label configured with its filter_id.
Configured(r) ==
    /\ \E f \in 1..Len(FilterIds(config)) :
         FilterIds(config)[f] = <<r.filter_label, r.filter_id>>
    /\ \E i \in 1..Len(Regions(config)) : Regions(config)[i] = r.region
    /\ \E i \in 1..Len(Resolutions(config)) : Resolutions(config)[i] = r.resolution

\* C16 (Spec). Provenance of rows: every row of the table belongs to a
\* combination of the configured cross-product whose index has been fetched
\* and carries a label configured with its filter_id; a write batch is opened
\* only by a series fetch that succeeded with a non-empty body and a non-empty
\* normalized batch, for the combination the loops stand at, and only that
\* batch's keys enter the table; no write batch is opened for an empty batch.
C16_Provenance ==
    /\ [](\A r \in BagToSet(table) :
            /\ Configured(r)
            /\ \E k \in 1..Len(idxLog) : idxLog[k] = <<r.filter_id, r.region, r.resolution>>)
    /\ [](wpc # "idle" => timeseries_data # <<>> /\ wargs = CurrentArgs /\ issued # <<>>)
    /\ [][(wpc = "idle" /\ wpc' # "idle") =>
            /\ pc = "fetch_series"
            /\ http' = "ok"
            /\ timeseries_data' # <<>>
            /\ wargs' = CurrentArgs]_vars
    /\ [][KeysOf(table') \subseteq KeysOf(table) \cup BatchKeys]_vars

\* The run has returned, and the table holds rows of two filters, each under
\* its own label.
C16_Witness ==
    /\ pc = "done"
    /\ \E r1, r2 \in BagToSet(table) :
         /\ r1.filter_id # r2.filter_id
         /\ r1.filter_label # r2.filter_label

====
